---------------------------- MODULE Spec2Model ----------------------------
(***************************************************************************)
(* A model of the batch JSON -> TOON converter (src/unnamed/part_000).     *)
(*                                                                         *)
(* Text the program inspects (option values, file names) is a sequence of  *)
(* one-character strings, so that parseInt, toLowerCase, endsWith and      *)
(* path.parse are computed the way the runtime computes them.              *)
(*                                                                         *)
(* The filesystem is the pair of directories the program works on.  The    *)
(* per-entry failures the program catches are properties of that state: a  *)
(* dangling link makes stat fail, an unreadable file makes readFile fail,  *)
(* a directory sitting at the output path makes writeFile fail.  mkdir,    *)
(* rm and readdir on the two workspace directories succeed.                *)
(***************************************************************************)
EXTENDS Integers, Sequences, FiniteSets, TLC

VARIABLES
    argv,       \* the values parseArgs hands back (raw option strings and flags)
    options,    \* None, or Some(CliOptions) once parseCliOptions has returned
    pc,         \* position of main: parse, catch, ensure, clean, readdir, loop, exited
    thrown,     \* None, or Some(message of the error main rejected with)
    exitCode,   \* the process exit status (0 unless process.exit(1) ran)
    inExists,   \* input_json exists
    inDir,      \* the content of input_json, in the order readdir enumerates it
    outExists,  \* output_toon exists
    out,        \* the content of output_toon: name -> file or directory
    entries,    \* the result of readdir (entry names), <<>> before it ran
    i,          \* number of entries of `entries` the loop has handled
    stats,      \* ConversionStats
    callLog,    \* every call made so far to node:fs/promises, JSON.parse and encode
    console,    \* every console line written so far, in order
    summary,    \* None, or Some(stats as printed by logSummary)
    run,        \* 1 for the first invocation, 2 for the re-run
    outAtStart, \* the content of output_toon when this invocation started
    stats1      \* the stats the first invocation printed

vars == <<argv, options, pc, thrown, exitCode, inExists, inDir, outExists, out,
          entries, i, stats, callLog, console, summary, run, outAtStart, stats1>>

None == <<>>
Some(x) == <<x>>

Range(s) == {s[k] : k \in 1..Len(s)}

---------------------------------------------------------------------------
(* Bounds of the model *)

\* longest raw value given to --indent / --flattenDepth
MaxStrLen == 3
\* largest number of entries in input_json
MaxEntries == 3

---------------------------------------------------------------------------
(* Text helpers *)

Digits == {"0", "1"}
OptChars == {"0", "1", "-", ".", "x"}

DigitVal(c) == IF c = "1" THEN 1 ELSE 0

IsWhiteSpace(c) == c = " "

RECURSIVE TrimStart(_)
TrimStart(s) ==
    IF s # <<>> /\ IsWhiteSpace(Head(s)) THEN TrimStart(Tail(s)) ELSE s

\* the longest prefix of s made of decimal digits
RECURSIVE DigitPrefix(_)
DigitPrefix(s) ==
    IF s # <<>> /\ Head(s) \in Digits
    THEN <<Head(s)>> \o DigitPrefix(Tail(s))
    ELSE <<>>

RECURSIVE DecimalValue(_)
DecimalValue(s) ==
    IF s = <<>> THEN 0
    ELSE 10 * DecimalValue(SubSeq(s, 1, Len(s) - 1)) + DigitVal(s[Len(s)])

\* Number.parseInt(s, 10): skip leading white space, take an optional sign,
\* then the longest run of digits; NaN when that run is empty.  Whatever
\* follows the digits is ignored.
ParseInt(s) ==
    LET t == TrimStart(s)
        signed == t # <<>> /\ Head(t) \in {"-", "+"}
        neg == t # <<>> /\ Head(t) = "-"
        body == IF signed THEN Tail(t) ELSE t
        ds == DigitPrefix(body)
    IN  IF ds = <<>>
        THEN [nan |-> TRUE, val |-> 0]
        ELSE [nan |-> FALSE,
              val |-> IF neg THEN 0 - DecimalValue(ds) ELSE DecimalValue(ds)]

ToLowerChar(c) ==
    CASE c = "J" -> "j"
      [] c = "S" -> "s"
      [] c = "O" -> "o"
      [] c = "N" -> "n"
      [] OTHER -> c

ToLowerCase(s) == [k \in 1..Len(s) |-> ToLowerChar(s[k])]

EndsWith(s, suf) ==
    /\ Len(s) >= Len(suf)
    /\ SubSeq(s, Len(s) - Len(suf) + 1, Len(s)) = suf

DotJson == <<".", "j", "s", "o", "n">>
DotToon == <<".", "t", "o", "o", "n">>

\* index of the right-most "." of s, 0 when there is none
LastDot(s) ==
    LET dots == {k \in 1..Len(s) : s[k] = "."}
    IN  IF dots = {} THEN 0 ELSE CHOOSE k \in dots : \A m \in dots : m <= k

\* path.parse(base).name for a bare entry name: everything before the
\* right-most dot, except that a name with no dot, or whose only dot is its
\* first character, has no extension.
PathParseName(base) ==
    IF LastDot(base) <= 1 THEN base ELSE SubSeq(base, 1, LastDot(base) - 1)

OutputNameOf(name) == PathParseName(name) \o DotToon

---------------------------------------------------------------------------
(* Option Resolver *)

Tab == "\t"
\* Object.values(DELIMITERS) and DEFAULT_DELIMITER of the encoder package
DELIMITERS == {",", Tab, "|"}
DEFAULT_DELIMITER == ","

DefaultIndent == 2

\* JavaScript truthiness of an optional string: undefined and "" are falsy
Truthy(v) == v # None /\ v[1] # <<>>

\* `v ?? d` for an optional value
Coalesce(v, d) == IF v = None THEN d ELSE v[1]

ParsedIndent(values) ==
    IF Truthy(values.indent)
    THEN ParseInt(values.indent[1])
    ELSE [nan |-> FALSE, val |-> DefaultIndent]

IndentRejected(values) ==
    ParsedIndent(values).nan \/ ParsedIndent(values).val < 0

DelimiterRejected(values) ==
    Coalesce(values.delimiter, DEFAULT_DELIMITER) \notin DELIMITERS

KeyFoldingRejected(values) ==
    /\ Coalesce(values.keyFolding, "off") # "off"
    /\ Coalesce(values.keyFolding, "off") # "safe"

FlattenDepthRejected(values) ==
    /\ values.flattenDepth # None
    /\ \/ ParseInt(values.flattenDepth[1]).nan
       \/ ParseInt(values.flattenDepth[1]).val < 0

NoOptions ==
    [indent |-> 0, delimiter |-> "", keyFolding |-> "", flattenDepth |-> None,
     clean |-> FALSE, verbose |-> FALSE]

\* parseCliOptions: the first failing check throws; otherwise the options
parseCliOptions(values) ==
    IF IndentRejected(values)
    THEN [threw |-> TRUE, message |-> "--indent", opts |-> NoOptions]
    ELSE IF DelimiterRejected(values)
    THEN [threw |-> TRUE, message |-> "--delimiter", opts |-> NoOptions]
    ELSE IF KeyFoldingRejected(values)
    THEN [threw |-> TRUE, message |-> "--keyFolding", opts |-> NoOptions]
    ELSE IF FlattenDepthRejected(values)
    THEN [threw |-> TRUE, message |-> "--flattenDepth", opts |-> NoOptions]
    ELSE [threw |-> FALSE, message |-> "",
          opts |-> [indent |-> ParsedIndent(values).val,
                    delimiter |-> Coalesce(values.delimiter, DEFAULT_DELIMITER),
                    keyFolding |-> Coalesce(values.keyFolding, "off"),
                    flattenDepth |->
                        IF values.flattenDepth = None THEN None
                        ELSE Some(ParseInt(values.flattenDepth[1]).val),
                    clean |-> values.clean,
                    verbose |-> values.verbose]]

---------------------------------------------------------------------------
(* Files, JSON.parse and the encoder *)

Str_a_json == <<"a", ".", "j", "s", "o", "n">>
Str_a_JSON == <<"a", ".", "J", "S", "O", "N">>
Str_b_json == <<"b", ".", "j", "s", "o", "n">>
Str_c_json == <<"c", ".", "j", "s", "o", "n">>
Str_l_json == <<"l", ".", "j", "s", "o", "n">>
Str_a_txt == <<"a", ".", "t", "x", "t">>
Str_d_json == <<"d", ".", "j", "s", "o", "n">>
Str_a_toon == <<"a", ".", "t", "o", "o", "n">>
Str_stale_toon == <<"s", "t", "a", "l", "e", ".", "t", "o", "o", "n">>

File(name, readable, text) ==
    [name |-> name, kind |-> "file", readable |-> readable, text |-> text]
Directory(name) ==
    [name |-> name, kind |-> "dir", readable |-> TRUE, text |-> ""]
Dangling(name) ==
    [name |-> name, kind |-> "dangling", readable |-> FALSE, text |-> ""]

\* what input_json may hold
EntryUniverse ==
    { File(Str_a_json, TRUE, "[1]"),
      File(Str_a_json, TRUE, "{x:}"),
      File(Str_a_JSON, TRUE, "[1,2]"),
      File(Str_b_json, TRUE, "[1,2]"),
      File(Str_b_json, FALSE, "[1]"),
      File(Str_c_json, TRUE, "[[]]"),
      File(Str_a_txt, TRUE, "[1]"),
      Directory(Str_d_json),
      Dangling(Str_l_json) }

\* JSON.parse on the texts of the universe
JSONParse(text) ==
    CASE text = "[1]" -> [threw |-> FALSE, doc |-> "arr1"]
      [] text = "[1,2]" -> [threw |-> FALSE, doc |-> "arr12"]
      [] text = "[[]]" -> [threw |-> FALSE, doc |-> "nested"]
      [] OTHER -> [threw |-> TRUE, doc |-> ""]

\* the documents the encoder rejects
Unencodable == {"nested"}

\* encode(data, options): a pure function of the document and the four
\* encoder options, or an encoding error
Encode(doc, o) ==
    [threw |-> doc \in Unencodable,
     text |-> <<doc, o.indent, o.delimiter, o.keyFolding, o.flattenDepth>>]

OutFile(text) == [type |-> "file", data |-> text]
OutDir == [type |-> "dir", data |-> <<>>]
OldFile == OutFile(<<"old", DefaultIndent, DEFAULT_DELIMITER, "off", None>>)

EmptyOut == [n \in {} |-> OutDir]

\* a variant whose catch answers true
IsProcessableFile_StatErrorPasses(e) == e.kind # "dir"

\* stat(filePath) then fileStat.isFile(): a thrown stat is caught, warned
\* about, and answers false
StatThrows(e) == e.kind = "dangling"
IsProcessableFile(e) == ~StatThrows(e) /\ e.kind = "file"

IsJsonName(name) == EndsWith(ToLowerCase(name), DotJson)

\* a variant that appends to an existing file instead of replacing it
WriteFile_Appends(o, name, text) ==
    [n \in DOMAIN o \cup {name} |->
        IF n # name THEN o[n]
        ELSE IF name \in DOMAIN o THEN OutFile(o[name].data \o text)
        ELSE OutFile(text)]

\* writeFile(outputPath, text): fails when a directory sits at outputPath
WriteThrows(o, name) == name \in DOMAIN o /\ o[name].type = "dir"
WriteFile(o, name, text) ==
    [n \in DOMAIN o \cup {name} |-> IF n = name THEN OutFile(text) ELSE o[n]]

\* a logged call: the function, the directory it works in, the entry name
FsCall(op, dir, name) == [op |-> op, dir |-> dir, name |-> name]
Line(level, what, name) == [level |-> level, what |-> what, name |-> name]

\* the try block of the loop body for entry e: read, parse, encode, write
TryConvert(e, opts, o) ==
    LET read == FsCall("readFile", "input_json", e.name)
        parse == FsCall("JSON.parse", "", e.name)
        parsed == JSONParse(e.text)
        enc == FsCall("encode", "", e.name)
        encoded == Encode(parsed.doc, opts)
        outputName == OutputNameOf(e.name)
        write == FsCall("writeFile", "output_toon", outputName)
    IN  IF ~e.readable
        THEN [threw |-> TRUE, step |-> "read", calls |-> <<read>>, out |-> o]
        ELSE IF parsed.threw
        THEN [threw |-> TRUE, step |-> "parse", calls |-> <<read, parse>>,
              out |-> o]
        ELSE IF encoded.threw
        THEN [threw |-> TRUE, step |-> "encode",
              calls |-> <<read, parse, enc>>, out |-> o]
        ELSE IF WriteThrows(o, outputName)
        THEN [threw |-> TRUE, step |-> "write",
              calls |-> <<read, parse, enc, write>>, out |-> o]
        ELSE [threw |-> FALSE, step |-> "",
              calls |-> <<read, parse, enc, write>>,
              out |-> WriteFile(o, outputName, encoded.text)]

---------------------------------------------------------------------------
(* Initial states *)

Strs(n) == UNION {[1..k -> OptChars] : k \in 0..n}
OptStrs(n) == {None} \cup {Some(s) : s \in Strs(n)}

Argv(indent, delimiter, keyFolding, flattenDepth, clean, verbose) ==
    [indent |-> indent, delimiter |-> delimiter, keyFolding |-> keyFolding,
     flattenDepth |-> flattenDepth, clean |-> clean, verbose |-> verbose]

\* command lines of the runs of the whole program
MainArgvs ==
    { Argv(None, None, None, None, FALSE, FALSE),
      Argv(None, None, None, None, TRUE, FALSE),
      Argv(Some(<<"1">>), Some("|"), Some("safe"), Some(<<"0">>), TRUE, TRUE),
      Argv(Some(<<"1", "0">>), Some(Tab), Some("off"), None, FALSE, TRUE),
      Argv(Some(<<"-", "1">>), None, None, None, TRUE, FALSE),
      Argv(None, Some(";"), None, None, TRUE, FALSE),
      Argv(None, None, Some("bogus"), None, TRUE, TRUE),
      Argv(None, None, None, Some(<<"x">>), FALSE, FALSE) }

\* command lines for the option resolver alone: every raw value up to
\* MaxStrLen for one numeric option, a few for the other
FewOptStrs == {None, Some(<<"1">>), Some(<<"x">>)}
ParseArgvs ==
    { Argv(n[1], d, k, n[2], c, FALSE) :
        n \in (OptStrs(MaxStrLen) \X FewOptStrs)
                \cup (FewOptStrs \X OptStrs(MaxStrLen)),
        d \in {None, Some(","), Some("|"), Some(";"), Some("")},
        k \in {None, Some("safe"), Some("bogus"), Some("")},
        c \in BOOLEAN }

DistinctNames(s) ==
    \A j, k \in 1..Len(s) : j # k => s[j].name # s[k].name

\* input_json: up to MaxEntries entries with distinct names, in any order
InDirs ==
    {s \in UNION {[1..k -> EntryUniverse] : k \in 0..MaxEntries} :
        DistinctNames(s)}

\* output_toon before the run: empty, or a stale file, and at a.toon
\* nothing, an old file or a directory
OutStates ==
    { EmptyOut,
      (Str_a_toon :> OldFile),
      (Str_a_toon :> OutDir),
      (Str_stale_toon :> OldFile),
      (Str_a_toon :> OldFile) @@ (Str_stale_toon :> OldFile),
      (Str_a_toon :> OutDir) @@ (Str_stale_toon :> OldFile) }

ZeroStats == [processed |-> 0, converted |-> 0, skipped |-> 0, failed |-> 0]

InitProcess ==
    /\ options = None
    /\ pc = "parse"
    /\ thrown = None
    /\ exitCode = 0
    /\ entries = <<>>
    /\ i = 0
    /\ stats = ZeroStats
    /\ callLog = <<>>
    /\ console = <<>>
    /\ summary = None
    /\ run = 1
    /\ stats1 = ZeroStats

\* a rejected command line never looks at input_json: those runs are taken
\* over the directories of at most one entry
Init ==
    /\ argv \in MainArgvs
    /\ inDir \in InDirs
    /\ parseCliOptions(argv).threw => Len(inDir) <= 1
    /\ inExists \in {TRUE} \cup {inDir # <<>>}
    /\ out \in OutStates
    /\ outExists \in {TRUE} \cup {out # EmptyOut}
    /\ outAtStart = out
    /\ InitProcess

InitParse ==
    /\ argv \in ParseArgvs
    /\ inDir = <<File(Str_a_json, TRUE, "[1]")>>
    /\ inExists = TRUE
    /\ out = (Str_stale_toon :> OldFile)
    /\ outExists = TRUE
    /\ outAtStart = out
    /\ InitProcess

---------------------------------------------------------------------------
(* main *)

\* a variant that creates the workspace before it resolves the options
ParseCliOptions_AfterWorkspace ==
    /\ pc = "parse"
    /\ inExists' = TRUE
    /\ outExists' = TRUE
    /\ callLog' = callLog \o <<FsCall("mkdir", "input_json", <<>>),
                               FsCall("mkdir", "output_toon", <<>>)>>
    /\ LET r == parseCliOptions(argv)
       IN  IF r.threw
           THEN /\ thrown' = Some(r.message)
                /\ pc' = "catch"
                /\ UNCHANGED options
           ELSE /\ options' = Some(r.opts)
                /\ pc' = "ensure"
                /\ UNCHANGED thrown
    /\ UNCHANGED <<argv, exitCode, inDir, out, entries, i, stats, console,
                   summary, run, outAtStart, stats1>>

\* line 28: const options = parseCliOptions(); a throw rejects main()
ParseCliOptions ==
    /\ pc = "parse"
    /\ LET r == parseCliOptions(argv)
       IN  IF r.threw
           THEN /\ thrown' = Some(r.message)
                /\ pc' = "catch"
                /\ UNCHANGED options
           ELSE /\ options' = Some(r.opts)
                /\ pc' = "ensure"
                /\ UNCHANGED thrown
    /\ UNCHANGED <<argv, exitCode, inExists, inDir, outExists, out, entries, i,
                   stats, callLog, console, summary, run, outAtStart, stats1>>

\* main().catch: print the message and process.exit(1)
MainCatch ==
    /\ pc = "catch"
    /\ console' = Append(console, Line("error", thrown[1], <<>>))
    /\ exitCode' = 1
    /\ pc' = "exited"
    /\ UNCHANGED <<argv, options, thrown, inExists, inDir, outExists, out,
                   entries, i, stats, callLog, summary, run, outAtStart, stats1>>

\* ensureWorkspace: mkdir -p of both directories
EnsureWorkspace ==
    /\ pc = "ensure"
    /\ inExists' = TRUE
    /\ outExists' = TRUE
    /\ callLog' = callLog \o <<FsCall("mkdir", "input_json", <<>>),
                           FsCall("mkdir", "output_toon", <<>>)>>
    /\ pc' = IF options[1].clean THEN "clean" ELSE "readdir"
    /\ UNCHANGED <<argv, options, thrown, exitCode, inDir, out, entries, i,
                   stats, console, summary, run, outAtStart, stats1>>

\* a variant whose rm leaves the content of output_toon in place
EmptyOutputDir_KeepsContent ==
    /\ pc = "clean"
    /\ outExists' = TRUE
    /\ callLog' = callLog \o <<FsCall("rm", "output_toon", <<>>),
                               FsCall("mkdir", "output_toon", <<>>)>>
    /\ pc' = "readdir"
    /\ UNCHANGED <<argv, options, thrown, exitCode, inExists, inDir, out,
                   entries, i, stats, console, summary, run, outAtStart,
                   stats1>>

\* emptyOutputDir: rm -rf output_toon, then mkdir -p it
EmptyOutputDir ==
    /\ pc = "clean"
    /\ out' = EmptyOut
    /\ outExists' = TRUE
    /\ callLog' = callLog \o <<FsCall("rm", "output_toon", <<>>),
                           FsCall("mkdir", "output_toon", <<>>)>>
    /\ pc' = "readdir"
    /\ UNCHANGED <<argv, options, thrown, exitCode, inExists, inDir, entries,
                   i, stats, console, summary, run, outAtStart, stats1>>

\* lines 34-45: fresh stats, readdir, and the early return on no entries
Readdir ==
    /\ pc = "readdir"
    /\ stats' = ZeroStats
    /\ entries' = [k \in 1..Len(inDir) |-> inDir[k].name]
    /\ i' = 0
    /\ callLog' = Append(callLog, FsCall("readdir", "input_json", <<>>))
    /\ IF inDir = <<>>
       THEN /\ console' = Append(console, Line("warn", "no-files", <<>>))
            /\ pc' = "exited"
       ELSE /\ pc' = "loop"
            /\ UNCHANGED console
    /\ UNCHANGED <<argv, options, thrown, exitCode, inExists, inDir, outExists,
                   out, summary, run, outAtStart, stats1>>

Lookup(name) == CHOOSE e \in Range(inDir) : e.name = name

Bump(s, field) == [s EXCEPT ![field] = @ + 1]

\* a variant that forgets to count a non-.json file as skipped
StatsAfter_NotJsonUncounted(s, outcome) ==
    CASE outcome = "not-file" -> Bump(s, "skipped")
      [] outcome = "not-json" -> Bump(s, "processed")
      [] outcome = "failed" -> Bump(Bump(s, "processed"), "failed")
      [] outcome = "converted" -> Bump(Bump(s, "processed"), "converted")

\* the counters after one entry: lines 50, 56, 59, 77 and 82
StatsAfter(s, outcome) ==
    CASE outcome = "not-file" -> Bump(s, "skipped")
      [] outcome = "not-json" -> Bump(Bump(s, "processed"), "skipped")
      [] outcome = "failed" -> Bump(Bump(s, "processed"), "failed")
      [] outcome = "converted" -> Bump(Bump(s, "processed"), "converted")

\* a variant in which a thrown conversion ends the loop
NextIndex_AbortOnFailure(threw) == IF threw THEN Len(entries) ELSE i + 1

\* the loop goes on to the next entry whether or not the try block threw
NextIndex(threw) == i + 1

\* lines 47-86: one iteration of the loop over entries
HandleEntry ==
    /\ pc = "loop"
    /\ i < Len(entries)
    /\ LET name == entries[i + 1]
           e == Lookup(name)
           opts == options[1]
           stat == FsCall("stat", "input_json", name)
           t == TryConvert(e, opts, out)
           tried == IsProcessableFile(e) /\ IsJsonName(name)
       IN  /\ i' = NextIndex(tried /\ t.threw)
           /\ IF ~IsProcessableFile(e)
              THEN /\ stats' = StatsAfter(stats, "not-file")
                   /\ callLog' = Append(callLog, stat)
                   /\ console' = console
                          \o (IF StatThrows(e)
                              THEN <<Line("warn", "unable-to-read", name)>>
                              ELSE <<>>)
                          \o (IF opts.verbose
                              THEN <<Line("info", "skipping", name)>>
                              ELSE <<>>)
                   /\ UNCHANGED out
              ELSE IF ~IsJsonName(name)
              THEN /\ stats' = StatsAfter(stats, "not-json")
                   /\ callLog' = Append(callLog, stat)
                   /\ console' = Append(console, Line("warn", "not-json", name))
                   /\ UNCHANGED out
              ELSE IF t.threw
              THEN /\ stats' = StatsAfter(stats, "failed")
                   /\ callLog' = Append(callLog, stat) \o t.calls
                   /\ console' = Append(console, Line("error", t.step, name))
                   /\ out' = t.out
              ELSE /\ stats' = StatsAfter(stats, "converted")
                   /\ callLog' = Append(callLog, stat) \o t.calls
                   /\ console' = console
                          \o (IF opts.verbose
                              THEN <<Line("info", "converted", name)>>
                              ELSE <<>>)
                   /\ out' = t.out
    /\ UNCHANGED <<argv, options, pc, thrown, exitCode, inExists, inDir,
                   outExists, entries, summary, run, outAtStart, stats1>>

\* line 88 and the return of main: logSummary(stats), then the process ends
LogSummary ==
    /\ pc = "loop"
    /\ i = Len(entries)
    /\ summary' = Some(stats)
    /\ console' = Append(console, Line("log", "summary", <<>>))
                    \o (IF stats.converted = 0
                        THEN <<Line("warn", "none-converted", <<>>)>>
                        ELSE <<>>)
    /\ pc' = "exited"
    /\ UNCHANGED <<argv, options, thrown, exitCode, inExists, inDir, outExists,
                   out, entries, i, stats, callLog, run, outAtStart, stats1>>

\* the same command is run again in the same working directory
Rerun ==
    /\ pc = "exited"
    /\ run = 1
    /\ run' = 2
    /\ outAtStart' = out
    /\ stats1' = stats
    /\ options' = None
    /\ pc' = "parse"
    /\ thrown' = None
    /\ exitCode' = 0
    /\ entries' = <<>>
    /\ i' = 0
    /\ stats' = ZeroStats
    /\ callLog' = <<>>
    /\ console' = <<>>
    /\ summary' = None
    /\ UNCHANGED <<argv, inExists, inDir, outExists, out>>

Next ==
    \/ ParseCliOptions
    \/ MainCatch
    \/ EnsureWorkspace
    \/ EmptyOutputDir
    \/ Readdir
    \/ HandleEntry
    \/ LogSummary

Spec == Init /\ [][Next]_vars

\* the option resolver alone, over every raw value within the bounds
NextParse ==
    \/ ParseCliOptions
    \/ MainCatch

SpecParse == InitParse /\ [][NextParse]_vars

\* two invocations in a row
NextTwice ==
    \/ Next
    \/ Rerun

SpecTwice == Init /\ [][NextTwice]_vars

---------------------------------------------------------------------------
(* Properties *)

Calls(op) == {k \in 1..Len(callLog) : callLog[k].op = op}

\* the run went through the loop and printed its summary
SummaryPrinted == summary # None

\* C1: for a run with valid options over a non-empty input directory, the
\* exit status is non-zero exactly when failed >= 1, and it is final only
\* once the summary has been printed; a run with failed = 0 exits with 0.
C1_ExitStatusReflectsFailures ==
    (pc = "exited" /\ options # None /\ inDir # <<>>) =>
        /\ SummaryPrinted
        /\ (exitCode # 0) <=> (stats.failed >= 1)

\* C2: when parseCliOptions rejects an option value the run ends with a
\* non-zero exit status and nothing has touched the filesystem: no call of
\* any kind was made, output_toon holds what it held, nothing was
\* enumerated and all four counters are 0.
C2_RejectedBeforeAnyFilesystemAction ==
    parseCliOptions(argv).threw =>
        /\ callLog = <<>>
        /\ out = outAtStart
        /\ entries = <<>>
        /\ stats = ZeroStats
        /\ pc \in {"parse", "catch", "exited"}
        /\ pc = "exited" => exitCode # 0

C2_Witness ==
    /\ pc = "exited"
    /\ thrown = Some("--keyFolding")
    /\ argv.clean
    /\ Str_stale_toon \in DOMAIN out
    /\ inDir # <<>>

AllIn(s, chars) == s # <<>> /\ \A k \in 1..Len(s) : s[k] \in chars

\* the whole value is a run of decimal digits (or a signed zero, which
\* denotes 0)
IsNonNegativeIntegerText(s) ==
    \/ AllIn(s, Digits)
    \/ s # <<>> /\ Head(s) = "-" /\ AllIn(Tail(s), {"0"})

IntegerDenoted(s) == IF Head(s) = "-" THEN 0 ELSE DecimalValue(s)

\* C3: parseCliOptions accepts a supplied --indent only when the whole value
\* denotes a non-negative integer and then returns that integer; it uses 2
\* only when --indent is absent; any other supplied value makes it fail.
\* The same for --flattenDepth, where an absent value stays unset.
C3_NumericOptionsAreWholeIntegers ==
    pc # "parse" =>
        /\ (argv.indent # None /\ ~IsNonNegativeIntegerText(argv.indent[1]))
               => options = None
        /\ (argv.flattenDepth # None
               /\ ~IsNonNegativeIntegerText(argv.flattenDepth[1]))
               => options = None
        /\ options # None =>
               /\ options[1].indent =
                      IF argv.indent = None THEN DefaultIndent
                      ELSE IntegerDenoted(argv.indent[1])
               /\ options[1].flattenDepth =
                      IF argv.flattenDepth = None THEN None
                      ELSE Some(IntegerDenoted(argv.flattenDepth[1]))

\* the loop over the entries has begun (and may have ended)
LoopStarted == pc = "loop" \/ SummaryPrinted

\* a regular file whose name ends in .json, compared case-insensitively
Eligible(e) == e.kind = "file" /\ IsJsonName(e.name)

\* one of the four steps fails for e: it cannot be read, its text is not
\* JSON, the encoder rejects its document, or its output path is taken by
\* a directory
StepFails(e) ==
    \/ ~e.readable
    \/ JSONParse(e.text).threw
    \/ JSONParse(e.text).doc \in Unencodable
    \/ WriteThrows(out, OutputNameOf(e.name))

HandledBad == {j \in 1..i : Eligible(inDir[j]) /\ StepFails(inDir[j])}
HandledGood == {j \in 1..i : Eligible(inDir[j]) /\ ~StepFails(inDir[j])}

\* the writeFile calls that succeeded
Written == {k \in Calls("writeFile") : ~WriteThrows(out, callLog[k].name)}

\* C4: a failing step of one .json regular file adds exactly 1 to failed for
\* that entry and never stops the loop: after any number of handled entries
\* failed counts the handled entries with a failing step, converted the
\* other handled .json files, one output was written per converted entry,
\* and the summary is printed only after the last entry.
C4_FailureIsolatedPerEntry ==
    LoopStarted =>
        /\ stats.failed = Cardinality(HandledBad)
        /\ stats.converted = Cardinality(HandledGood)
        /\ stats.processed =
               Cardinality({j \in 1..i : inDir[j].kind = "file"})
        /\ Cardinality(Written) = Cardinality(HandledGood)
        /\ \A j \in HandledGood :
               \E k \in Written :
                   callLog[k].name = OutputNameOf(inDir[j].name)
        /\ SummaryPrinted => i = Len(inDir)

\* two valid files after a malformed one
C4_Witness ==
    /\ SummaryPrinted
    /\ Len(inDir) = 3
    /\ inDir[1].text = "{x:}"
    /\ stats = [processed |-> 3, converted |-> 2, skipped |-> 0, failed |-> 1]
    /\ Cardinality(Written) = 2

\* the name with its .json extension replaced by .toon
ReplaceExtension(name) ==
    SubSeq(name, 1, Len(name) - Len(DotJson)) \o DotToon

\* C5: over distinct .json-named inputs holding valid JSON, at the end of
\* the run every converted input has its own output file, named by
\* replacing the extension with .toon and holding the encoding of that
\* input's document, and the run wrote as many output files as it counted
\* conversions.
C5_OneOutputFilePerConvertedInput ==
    (/\ SummaryPrinted
     /\ \A e \in Range(inDir) :
            Eligible(e) /\ e.readable /\ ~JSONParse(e.text).threw) =>
        /\ \A j \in HandledGood :
               /\ ReplaceExtension(inDir[j].name) \in DOMAIN out
               /\ out[ReplaceExtension(inDir[j].name)] =
                      OutFile(Encode(JSONParse(inDir[j].text).doc,
                                     options[1]).text)
        /\ Cardinality({callLog[k].name : k \in Written}) = stats.converted

\* C6: an entry that is not a regular file (a directory, or one whose stat
\* fails) and a regular file not named .json add to skipped, are never
\* read, parsed or encoded, cause no write, and never end the run; a failed
\* stat is reported as a warning only.
C6_IneligibleEntriesOnlySkipped ==
    LoopStarted =>
        /\ stats.skipped = Cardinality({j \in 1..i : ~Eligible(inDir[j])})
        /\ \A k \in Calls("readFile") \cup Calls("JSON.parse")
                      \cup Calls("encode") :
               Eligible(Lookup(callLog[k].name))
        /\ Cardinality(Calls("writeFile"))
               <= Cardinality({j \in 1..i : Eligible(inDir[j])})
        /\ \A k \in 1..Len(console) :
               console[k].what = "unable-to-read" => console[k].level = "warn"
        /\ thrown = None
        /\ exitCode = 0
        /\ SummaryPrinted => i = Len(inDir)

\* a directory, a dangling link and a .txt file, all handled
C6_Witness ==
    /\ SummaryPrinted
    /\ stats.skipped = 3
    /\ \E j \in 1..i : inDir[j].kind = "dir"
    /\ \E j \in 1..i : inDir[j].kind = "dangling"
    /\ \E j \in 1..i : inDir[j].kind = "file" /\ ~IsJsonName(inDir[j].name)

\* the options were accepted and --clean was given
CleanRun == options # None /\ options[1].clean

\* C7: with --clean the output directory is emptied after the options are
\* validated and before the input directory is enumerated or anything is
\* written, so from then on it exists and holds only files this run wrote:
\* whatever was in it before and is not rewritten is gone, also when the
\* input directory is empty.
C7_CleanLeavesOnlyThisRunsFiles ==
    CleanRun =>
        /\ pc = "readdir" => outExists /\ out = EmptyOut
        /\ pc \in {"loop", "exited"} =>
               /\ outExists
               /\ Calls("rm") # {}
               /\ \A n \in DOMAIN out :
                      /\ out[n].type = "file"
                      /\ \E k \in Written : callLog[k].name = n
        /\ \A k \in Calls("readdir") \cup Calls("writeFile") :
               \E m \in Calls("rm") : m < k

\* a stale file and a stale directory are gone, one file was written
C7_Witness ==
    /\ pc = "exited"
    /\ CleanRun
    /\ outAtStart = (Str_a_toon :> OutDir) @@ (Str_stale_toon :> OldFile)
    /\ DOMAIN out = {Str_a_toon}
    /\ stats.converted = 1

\* C8: running the program twice in a row over the same input directory, in
\* the same enumeration order and with the same options leaves the output
\* directory after the second run exactly as the first run left it, and
\* the second run reports the stats of the first.
C8_RerunIsIdempotent ==
    (run = 2 /\ pc = "exited") =>
        /\ out = outAtStart
        /\ stats = stats1

\* the second run converted, failed and skipped entries, without --clean,
\* over an output directory that was not empty before the first run
C8_Witness ==
    /\ run = 2
    /\ pc = "exited"
    /\ SummaryPrinted
    /\ ~options[1].clean
    /\ stats.converted >= 1
    /\ stats.failed >= 1
    /\ stats.skipped >= 1
    /\ Str_stale_toon \in DOMAIN out

\* the names given to stat, in call order
StatNames ==
    LET calls == SelectSeq(callLog, LAMBDA c : c.op = "stat")
    IN  [k \in 1..Len(calls) |-> calls[k].name]

Outcomes(s) == s.converted + s.skipped + s.failed

C9_Inv ==
    LoopStarted =>
        /\ Outcomes(stats) = i
        /\ i <= Len(entries)
        /\ StatNames = SubSeq(entries, 1, i)
        /\ SummaryPrinted =>
               /\ Outcomes(stats) = Len(entries)
               /\ summary = Some(stats)

C9_Step ==
    /\ i' \in {i, i + 1}
    /\ stats'.processed >= stats.processed
    /\ stats'.converted >= stats.converted
    /\ stats'.skipped >= stats.skipped
    /\ stats'.failed >= stats.failed
    /\ i' = i + 1 =>
           \E f \in {"converted", "skipped", "failed"} :
               /\ stats'[f] = stats[f] + 1
               /\ \A g \in {"converted", "skipped", "failed"} \ {f} :
                      stats'[g] = stats[g]
    /\ i' = i => stats' = stats
    /\ SummaryPrinted => stats' = stats /\ summary' = summary

\* C9: throughout the loop converted + skipped + failed is the number of
\* entries handled so far; handling an entry adds exactly 1 to exactly one
\* of the three; entries are handled once each, in enumeration order; no
\* counter ever decreases; and the printed summary accounts for every
\* enumerated entry.
C9_OneOutcomePerEntry == []C9_Inv /\ [][C9_Step]_vars

\* every entry of a three-entry directory handled, one outcome of each kind
C9_Witness ==
    /\ SummaryPrinted
    /\ i = 3
    /\ stats.converted = 1
    /\ stats.skipped = 1
    /\ stats.failed = 1

\* C10: a skipped entry and an entry that fails to be read, parsed or
\* encoded leave the output directory unchanged; so, without --clean, a
\* <base>.toon left by an earlier run is still there with its old content
\* after a run in which <base>.json fails to parse or encode.
C10_FailedInputKeepsOldOutput ==
    (pc = "exited" /\ options # None /\ ~options[1].clean) =>
        \A e \in Range(inDir) :
            (/\ e.kind = "file"
             /\ EndsWith(e.name, DotJson)
             /\ e.readable
             /\ \/ JSONParse(e.text).threw
                \/ JSONParse(e.text).doc \in Unencodable
             /\ ReplaceExtension(e.name) \in DOMAIN outAtStart) =>
                /\ ReplaceExtension(e.name) \in DOMAIN out
                /\ out[ReplaceExtension(e.name)] =
                       outAtStart[ReplaceExtension(e.name)]

\* the step-level half of C10: an iteration that converts nothing leaves
\* output_toon as it was
C10_Frame ==
    [][(pc = "loop" /\ i' = i + 1 /\ stats'.converted = stats.converted)
           => out' = out]_vars

=============================================================================
